---- MODULE Spec2Model ----
(***************************************************************************)
(* Model of the Bancho binary packet codec of Nautilus and of its cache:   *)
(*   app/packets/writer.py   (BinaryWriter)                                *)
(*   app/packets/reader.py   (BinaryReader)                                *)
(*   app/cache/lru_cache.py  (LRUCache)                                    *)
(* and of its event manager:                                               *)
(*   api/event/manager.py    (EventManager, execute_all)                   *)
(*                                                                         *)
(* Python integers are unbounded, and the codec handles 64-bit values, so  *)
(* an integer is modelled as a record [neg, bits]: a sign and the binary   *)
(* digits of the magnitude, least-significant first, with no trailing 0    *)
(* digit (zero is [neg |-> FALSE, bits |-> <<>>]).  A byte is a number in  *)
(* 0..255.  A string is a sequence of Unicode code points.                 *)
(***************************************************************************)
EXTENDS Integers, Sequences, FiniteSets, TLC

\* ------------------------------------------------------------------------
\* Python integers
\* ------------------------------------------------------------------------

RECURSIVE Pow2(_)
Pow2(k) == IF k = 0 THEN 1 ELSE 2 * Pow2(k - 1)

\* The binary digits of a small natural number, least-significant first.
RECURSIVE NatBits(_)
NatBits(i) == IF i = 0 THEN <<>> ELSE <<i % 2>> \o NatBits(i \div 2)

\* The natural number a digit sequence denotes (at most 30 digits).
RECURSIVE BitsNat(_)
BitsNat(b) == IF b = <<>> THEN 0 ELSE Head(b) + 2 * BitsNat(Tail(b))

\* Drop the trailing (most-significant) zero digits.
RECURSIVE Strip(_)
Strip(b) ==
    IF b = <<>> THEN <<>>
    ELSE IF b[Len(b)] = 0 THEN Strip(SubSeq(b, 1, Len(b) - 1))
    ELSE b

Zeros(k) == [i \in 1..k |-> 0]
Ones(k) == [i \in 1..k |-> 1]

\* b as exactly w digits (b has at most w digits).
Pad(b, w) == b \o Zeros(w - Len(b))

\* Bitwise complement of a digit sequence.
Not(b) == [i \in 1..Len(b) |-> 1 - b[i]]

\* b + 1 and b - 1 (b > 0) on digit sequences.
RECURSIVE Inc(_)
Inc(b) ==
    IF b = <<>> THEN <<1>>
    ELSE IF Head(b) = 0 THEN <<1>> \o Tail(b)
    ELSE <<0>> \o Inc(Tail(b))

RECURSIVE Dec(_)
Dec(b) ==
    IF Head(b) = 1 THEN <<0>> \o Tail(b)
    ELSE <<1>> \o Dec(Tail(b))

PyInt(neg, bits) == [neg |-> neg, bits |-> bits]
Nat0(i) == PyInt(FALSE, NatBits(i))
Neg0(i) == PyInt(TRUE, NatBits(i))
IsZero(n) == n.bits = <<>>

\* num & 127 and num >> 7 for num >= 0.
And127(n) == BitsNat(SubSeq(n.bits, 1, IF Len(n.bits) < 7 THEN Len(n.bits) ELSE 7))
Shr7(n) == PyInt(FALSE, SubSeq(n.bits, 8, Len(n.bits)))

\* ------------------------------------------------------------------------
\* struct.pack / struct.unpack, little-endian standard sizes
\* ------------------------------------------------------------------------

ByteBits(b) == [i \in 1..8 |-> (b \div Pow2(i - 1)) % 2]

\* The w/8 bytes of w digits, least-significant byte first.
BitsBytes(b, w) == [k \in 1..(w \div 8) |-> BitsNat(SubSeq(b, 8 * (k - 1) + 1, 8 * k))]

RECURSIVE BytesBits(_)
BytesBits(bs) == IF bs = <<>> THEN <<>> ELSE ByteBits(Head(bs)) \o BytesBits(Tail(bs))

Ok(v) == [ok |-> TRUE, val |-> v]
Err(e) == [ok |-> FALSE, err |-> e]

\* Mutant of pack_unsigned: the bytes most-significant first.
pack_unsigned_big_endian(num, w) ==
    IF (num.neg /\ ~IsZero(num)) \/ Len(num.bits) > w
    THEN Err("struct.error")
    ELSE LET le == BitsBytes(Pad(num.bits, w), w)
         IN Ok([k \in 1..Len(le) |-> le[Len(le) + 1 - k]])

\* struct.pack("<B|H|I|Q", num): struct.error when num is out of range.
pack_unsigned(num, w) ==
    IF (num.neg /\ ~IsZero(num)) \/ Len(num.bits) > w
    THEN Err("struct.error")
    ELSE Ok(BitsBytes(Pad(num.bits, w), w))

\* struct.pack("<b|h|i|q", num): two's complement in w bits.
pack_signed(num, w) ==
    IF IsZero(num) THEN Ok(BitsBytes(Zeros(w), w))
    ELSE IF ~num.neg
    THEN IF Len(num.bits) > w - 1 THEN Err("struct.error")
         ELSE Ok(BitsBytes(Pad(num.bits, w), w))
    ELSE IF Len(Strip(Dec(num.bits))) > w - 1 THEN Err("struct.error")
         ELSE Ok(BitsBytes(Not(Pad(Strip(Dec(num.bits)), w)), w))

\* Mutant of unpack_unsigned: short data is taken as if zero-filled.
unpack_unsigned_zero_fill(data, w) ==
    IF Len(data) > w \div 8 THEN Err("struct.error")
    ELSE Ok(PyInt(FALSE, Strip(BytesBits(data))))

\* struct.unpack("<B|H|I|Q", data)[0]: struct.error unless data has w/8 bytes.
unpack_unsigned(data, w) ==
    IF Len(data) # w \div 8 THEN Err("struct.error")
    ELSE Ok(PyInt(FALSE, Strip(BytesBits(data))))

\* struct.unpack("<b|h|i|q", data)[0].
unpack_signed(data, w) ==
    IF Len(data) # w \div 8 THEN Err("struct.error")
    ELSE LET b == BytesBits(data)
         IN IF b[w] = 0 THEN Ok(PyInt(FALSE, Strip(b)))
            ELSE Ok(PyInt(TRUE, Strip(Inc(Not(b)))))

\* A Python float that a 32-bit IEEE-754 single holds exactly: sign bit, biased
\* exponent (0..255) and 23-bit fraction.
PyFloat(sign, exp, frac) == [sign |-> sign, exp |-> exp, frac |-> frac]

\* struct.pack("<f", num): fraction, exponent, sign from the low bit up.
pack_f32(num) ==
    Ok(BitsBytes(Pad(NatBits(num.frac), 23) \o Pad(NatBits(num.exp), 8) \o <<num.sign>>, 32))

\* struct.unpack("<f", data)[0].
unpack_f32(data) ==
    IF Len(data) # 4 THEN Err("struct.error")
    ELSE LET b == BytesBits(data)
         IN Ok(PyFloat(b[32], BitsNat(SubSeq(b, 24, 31)), BitsNat(SubSeq(b, 1, 23))))

\* ------------------------------------------------------------------------
\* str.encode() / bytes.decode(): UTF-8, strict
\* ------------------------------------------------------------------------

IsCont(b) == b >= 128 /\ b <= 191

\* The UTF-8 bytes of one code point.
utf8_char(c) ==
    IF c < 128 THEN <<c>>
    ELSE IF c < 2048 THEN <<192 + (c \div 64), 128 + (c % 64)>>
    ELSE IF c < 65536
    THEN <<224 + (c \div 4096), 128 + ((c \div 64) % 64), 128 + (c % 64)>>
    ELSE <<240 + (c \div 262144), 128 + ((c \div 4096) % 64), 128 + ((c \div 64) % 64),
           128 + (c % 64)>>

\* string.encode() (the strings of the model hold no lone surrogate, the only
\* code points that cannot be encoded).
RECURSIVE utf8_bytes(_)
utf8_bytes(string) ==
    IF string = <<>> THEN <<>> ELSE utf8_char(Head(string)) \o utf8_bytes(Tail(string))

\* data.decode(): the code points, or UnicodeDecodeError on a byte sequence that
\* is not well-formed UTF-8 (stray or missing continuation byte, overlong form,
\* surrogate, code point above 0x10FFFF).
RECURSIVE bytes_decode(_)
bytes_decode(data) ==
    IF data = <<>> THEN Ok(<<>>)
    ELSE LET b == data[1]
             n == IF b < 128 THEN 1
                  ELSE IF b >= 194 /\ b <= 223 THEN 2
                  ELSE IF b >= 224 /\ b <= 239 THEN 3
                  ELSE IF b >= 240 /\ b <= 244 THEN 4
                  ELSE 0
             wellformed ==
                 /\ n > 0
                 /\ Len(data) >= n
                 /\ \A i \in 2..n : IsCont(data[i])
                 /\ (b = 224 => data[2] >= 160)
                 /\ (b = 237 => data[2] <= 159)
                 /\ (b = 240 => data[2] >= 144)
                 /\ (b = 244 => data[2] <= 143)
             c == IF n = 1 THEN b
                  ELSE IF n = 2 THEN (b - 192) * 64 + (data[2] - 128)
                  ELSE IF n = 3
                  THEN (b - 224) * 4096 + (data[2] - 128) * 64 + (data[3] - 128)
                  ELSE (b - 240) * 262144 + (data[2] - 128) * 4096
                       + (data[3] - 128) * 64 + (data[4] - 128)
         IN IF ~wellformed THEN Err("UnicodeDecodeError")
            ELSE LET rest == bytes_decode(SubSeq(data, n + 1, Len(data)))
                 IN IF rest.ok THEN Ok(<<c>> \o rest.val) ELSE rest

\* ------------------------------------------------------------------------
\* BinaryWriter: each encoder maps the buffer to Ok(new buffer) or to the
\* exception it raises
\* ------------------------------------------------------------------------

HEADER_LEN == 7
NULL_HEADER == Zeros(HEADER_LEN)

\* BinaryWriter(pralloc_header)._buffer
writer_init(pralloc_header) == IF pralloc_header THEN NULL_HEADER ELSE <<>>

\* self._buffer += struct.pack(...)
Extend(buffer, packed) == IF packed.ok THEN Ok(buffer \o packed.val) ELSE packed

write_i8(buffer, num) == Extend(buffer, pack_signed(num, 8))

\* bytearray.append(num): ValueError unless 0 <= num < 256.
write_u8(buffer, num) ==
    IF (num.neg /\ ~IsZero(num)) \/ Len(num.bits) > 8 THEN Err("ValueError")
    ELSE Ok(Append(buffer, BitsNat(num.bits)))

write_i16(buffer, num) == Extend(buffer, pack_signed(num, 16))
write_u16(buffer, num) == Extend(buffer, pack_unsigned(num, 16))
write_i32(buffer, num) == Extend(buffer, pack_signed(num, 32))
write_u32(buffer, num) == Extend(buffer, pack_unsigned(num, 32))
write_i64(buffer, num) == Extend(buffer, pack_signed(num, 64))
write_u64(buffer, num) == Extend(buffer, pack_unsigned(num, 64))
write_f32(buffer, num) == Extend(buffer, pack_f32(num))

\* Mutant of uleb128_loop: the high bit of a byte is never set.
RECURSIVE uleb128_loop_no_flag(_, _)
uleb128_loop_no_flag(buffer, num) ==
    IF IsZero(num) THEN buffer
    ELSE uleb128_loop_no_flag(Append(buffer, And127(num)), Shr7(num))

\* The while loop of write_uleb128 (num > 0 on entry to each iteration):
\* append num & 127, shift, and set the high bit of the byte just appended
\* when groups remain.
RECURSIVE uleb128_loop(_, _)
uleb128_loop(buffer, num) ==
    IF IsZero(num) THEN buffer
    ELSE LET rest == Shr7(num)
             byte == And127(num) + (IF IsZero(rest) THEN 0 ELSE 128)
         IN uleb128_loop(Append(buffer, byte), rest)

\* write_uleb128(num) for num >= 0.
write_uleb128(buffer, num) ==
    IF IsZero(num) THEN write_u8(buffer, Nat0(0))
    ELSE Ok(uleb128_loop(buffer, num))

\* Mutant of write_raw: the contents replace the buffer.
write_raw_assign(buffer, contents) == Ok(contents)

\* write_raw(contents): self._buffer += contents
write_raw(buffer, contents) == Ok(buffer \o contents)

\* write_str(string): len(string) counts code points.
write_str(buffer, string) ==
    IF string # <<>>
    THEN LET marked == write_u8(buffer, Nat0(11)).val
             sized == write_uleb128(marked, Nat0(Len(string))).val
         IN write_raw(sized, utf8_bytes(string))
    ELSE write_u8(buffer, Nat0(0))

\* The wire type tags of types.py (SERIALISABLE_TYPES): the eight integer
\* classes, float and str.
SERIALISABLE_TYPES == {"u8", "i8", "u16", "i16", "u32", "i32", "u64", "i64", "float", "str"}

\* The encode dispatch table: tag -> the writer method registered for it.
_READERS ==
    [t \in {"u8", "i8", "u16", "i16", "u32", "i32", "u64", "i64", "str", "float"} |->
        CASE t = "u8" -> "write_u8"
          [] t = "i8" -> "write_i8"
          [] t = "u16" -> "write_u16"
          [] t = "i16" -> "write_i16"
          [] t = "u32" -> "write_u32"
          [] t = "i32" -> "write_i32"
          [] t = "u64" -> "write_u64"
          [] t = "i64" -> "write_i64"
          [] t = "str" -> "write_str"
          [] t = "float" -> "write_f32"]

\* A call that raised err after it had already changed the buffer to buffer.
Partial(err, buffer) == [ok |-> FALSE, err |-> err, val |-> buffer]

\* _writer_from_type(typ): the registered method; the assert fails on a tag
\* that is not in the table.
_writer_from_type(typ) ==
    IF typ \in DOMAIN _READERS THEN Ok(_READERS[typ]) ELSE Err("AssertionError")

\* writer(self, elem) for the method _writer_from_type resolved.
writer_call(method, buffer, elem) ==
    CASE method = "write_u8" -> write_u8(buffer, elem)
      [] method = "write_i8" -> write_i8(buffer, elem)
      [] method = "write_u16" -> write_u16(buffer, elem)
      [] method = "write_i16" -> write_i16(buffer, elem)
      [] method = "write_u32" -> write_u32(buffer, elem)
      [] method = "write_i32" -> write_i32(buffer, elem)
      [] method = "write_u64" -> write_u64(buffer, elem)
      [] method = "write_i64" -> write_i64(buffer, elem)
      [] method = "write_str" -> write_str(buffer, elem)
      [] method = "write_f32" -> write_f32(buffer, elem)

\* The for loop of write_list: an element whose encoder raises ends the call
\* with the elements before it already appended.
RECURSIVE write_elems(_, _, _)
write_elems(buffer, l, method) ==
    IF l = <<>> THEN Ok(buffer)
    ELSE LET r == writer_call(method, buffer, Head(l))
         IN IF r.ok THEN write_elems(r.val, Tail(l), method)
            ELSE Partial(r.err, buffer)

\* Mutant of write_list: the count is written as one byte.
write_list_u8_count(buffer, l, typ) ==
    LET counted == write_u8(buffer, Nat0(Len(l)))
        writer == _writer_from_type(typ)
    IN IF ~counted.ok THEN counted
       ELSE IF ~writer.ok THEN Partial(writer.err, counted.val)
       ELSE write_elems(counted.val, l, writer.val)

\* write_list(l, typ): the u16 count is written first, then the encoder is
\* resolved, then the elements are written.
write_list(buffer, l, typ) ==
    LET counted == write_u16(buffer, Nat0(Len(l)))
        writer == _writer_from_type(typ)
    IN IF ~counted.ok THEN counted
       ELSE IF ~writer.ok THEN Partial(writer.err, counted.val)
       ELSE write_elems(counted.val, l, writer.val)

\* write_osu_list(l)
write_osu_list(buffer, l) == write_list(buffer, l, "i32")

\* len(self._buffer) - HEADER_LEN as a Python integer.
PyDiff(a, b) == IF a >= b THEN Nat0(a - b) ELSE Neg0(b - a)

\* struct.pack("<HxI", packet_id, length)
pack_header(packet_id, length) ==
    LET id == pack_unsigned(packet_id, 16)
        len == pack_unsigned(length, 32)
    IN IF ~id.ok THEN id
       ELSE IF ~len.ok THEN len
       ELSE Ok(id.val \o <<0>> \o len.val)

\* Mutant of finish: the length field counts the header too.
finish_counts_header(buffer, packet_id) ==
    LET header == pack_header(packet_id, Nat0(Len(buffer)))
    IN IF header.ok THEN Ok(header.val \o SubSeq(buffer, HEADER_LEN + 1, Len(buffer)))
       ELSE header

\* finish(packet_id): self._buffer[0:7] = header; the slice assignment replaces
\* whatever lies in [0, 7) by the 7 header bytes.
finish(buffer, packet_id) ==
    LET header == pack_header(packet_id, PyDiff(Len(buffer), HEADER_LEN))
    IN IF header.ok THEN Ok(header.val \o SubSeq(buffer, HEADER_LEN + 1, Len(buffer)))
       ELSE header

\* ------------------------------------------------------------------------
\* BinaryReader: each decoder maps (buffer, offset) to the value it returns or
\* the exception it raises, and the offset it leaves behind
\* ------------------------------------------------------------------------

Ret(v, off) == [ok |-> TRUE, val |-> v, off |-> off]
Raise(e, off) == [ok |-> FALSE, err |-> e, off |-> off]

\* buffer[a:b] for 0 <= a: a Python slice is clipped to the buffer.
Slice(buffer, a, b) == SubSeq(buffer, a + 1, IF b < Len(buffer) THEN b ELSE Len(buffer))

\* __incr_offset(amount): the new offset.
incr_offset(offset, amount) == offset + amount

\* read_bytes(amount): the slice from the old offset to the incremented one.
read_bytes(buffer, offset, amount) ==
    Ret(Slice(buffer, offset, incr_offset(offset, amount)), incr_offset(offset, amount))

\* read_bytes(1)[0]: IndexError on the empty slice.
read_byte(buffer, offset) ==
    LET r == read_bytes(buffer, offset, 1)
    IN IF r.val = <<>> THEN Raise("IndexError", r.off) ELSE Ret(r.val[1], r.off)

\* struct.unpack of the bytes read: the value or struct.error, offset advanced.
Unpacked(u, off) == IF u.ok THEN Ret(u.val, off) ELSE Raise(u.err, off)

read_u8(buffer, offset) ==
    LET r == read_byte(buffer, offset)
    IN IF r.ok THEN Ret(Nat0(r.val), r.off) ELSE r

read_i8(buffer, offset) ==
    LET r == read_bytes(buffer, offset, 1) IN Unpacked(unpack_signed(r.val, 8), r.off)

read_u16(buffer, offset) ==
    LET r == read_bytes(buffer, offset, 2) IN Unpacked(unpack_unsigned(r.val, 16), r.off)

read_i16(buffer, offset) ==
    LET r == read_bytes(buffer, offset, 2) IN Unpacked(unpack_signed(r.val, 16), r.off)

read_u32(buffer, offset) ==
    LET r == read_bytes(buffer, offset, 4) IN Unpacked(unpack_unsigned(r.val, 32), r.off)

read_i32(buffer, offset) ==
    LET r == read_bytes(buffer, offset, 4) IN Unpacked(unpack_signed(r.val, 32), r.off)

read_u64(buffer, offset) ==
    LET r == read_bytes(buffer, offset, 8) IN Unpacked(unpack_unsigned(r.val, 64), r.off)

read_i64(buffer, offset) ==
    LET r == read_bytes(buffer, offset, 8) IN Unpacked(unpack_signed(r.val, 64), r.off)

read_f32(buffer, offset) ==
    LET r == read_bytes(buffer, offset, 4) IN Unpacked(unpack_f32(r.val), r.off)

\* skip(x): the new offset.
skip(offset, x) == incr_offset(offset, x)

\* Mutant of read_osu_header: the padding byte is read and not checked.
read_osu_header_lenient(buffer, offset) ==
    LET id == read_u16(buffer, offset)
        pad == read_byte(buffer, id.off)
        len == read_u32(buffer, pad.off)
    IN IF ~id.ok THEN id
       ELSE IF ~pad.ok THEN pad
       ELSE IF ~len.ok THEN len
       ELSE Ret(<<id.val, len.val>>, len.off)

\* read_osu_header(): asserts that the padding byte is zero.
read_osu_header(buffer, offset) ==
    LET id == read_u16(buffer, offset)
        pad == read_byte(buffer, id.off)
        len == read_u32(buffer, pad.off)
    IN IF ~id.ok THEN id
       ELSE IF ~pad.ok THEN pad
       ELSE IF pad.val # 0 THEN Raise("AssertionError", pad.off)
       ELSE IF ~len.ok THEN len
       ELSE Ret(<<id.val, len.val>>, len.off)

\* Mutant of uleb128_read_loop: the loop ends on a byte whose high bit is set.
RECURSIVE uleb128_read_loop_inverted(_, _, _)
uleb128_read_loop_inverted(buffer, offset, val) ==
    LET r == read_byte(buffer, offset)
    IN IF ~r.ok THEN r
       ELSE LET acc == val \o SubSeq(ByteBits(r.val), 1, 7)
            IN IF r.val >= 128 THEN Ret(PyInt(FALSE, Strip(acc)), r.off)
               ELSE uleb128_read_loop_inverted(buffer, r.off, acc)

\* The while loop of read_uleb128: val holds the 7 * k digits gathered from
\* the k bytes read so far, so val |= (b & 127) << shift appends 7 digits.
RECURSIVE uleb128_read_loop(_, _, _)
uleb128_read_loop(buffer, offset, val) ==
    LET r == read_byte(buffer, offset)
    IN IF ~r.ok THEN r
       ELSE LET acc == val \o SubSeq(ByteBits(r.val), 1, 7)
            IN IF r.val < 128 THEN Ret(PyInt(FALSE, Strip(acc)), r.off)
               ELSE uleb128_read_loop(buffer, r.off, acc)

\* read_uleb128(): 0 unless the first byte is 0x0B.
read_uleb128(buffer, offset) ==
    LET first == read_byte(buffer, offset)
    IN IF ~first.ok THEN first
       ELSE IF first.val # 11 THEN Ret(Nat0(0), first.off)
       ELSE uleb128_read_loop(buffer, first.off, <<>>)

\* read_str(): exists byte, then read_uleb128() for the length, then that
\* many bytes decoded as UTF-8.
read_str(buffer, offset) ==
    LET exists == read_byte(buffer, offset)
    IN IF ~exists.ok THEN exists
       ELSE IF exists.val = 0 THEN Ret(<<>>, exists.off)
       ELSE LET length == read_uleb128(buffer, exists.off)
            IN IF ~length.ok THEN length
               ELSE LET r == read_bytes(buffer, length.off, BitsNat(length.val.bits))
                        decoded == bytes_decode(r.val)
                    IN IF decoded.ok THEN Ret(decoded.val, r.off)
                       ELSE Raise(decoded.err, r.off)

\* The decode dispatch table: tag -> the reader method registered for it.
TYPE_READER_MAP ==
    [t \in {"str", "float", "i8", "u8", "i16", "u16", "i32", "u32", "i64", "u64"} |->
        CASE t = "str" -> "read_str"
          [] t = "float" -> "read_f32"
          [] t = "i8" -> "read_i8"
          [] t = "u8" -> "read_u8"
          [] t = "i16" -> "read_i16"
          [] t = "u16" -> "read_u16"
          [] t = "i32" -> "read_i32"
          [] t = "u32" -> "read_u32"
          [] t = "i64" -> "read_i64"
          [] t = "u64" -> "read_u64"]

\* TYPE_READER_MAP[t](self) for the method the table holds.
reader_call(method, buffer, offset) ==
    CASE method = "read_str" -> read_str(buffer, offset)
      [] method = "read_f32" -> read_f32(buffer, offset)
      [] method = "read_i8" -> read_i8(buffer, offset)
      [] method = "read_u8" -> read_u8(buffer, offset)
      [] method = "read_i16" -> read_i16(buffer, offset)
      [] method = "read_u16" -> read_u16(buffer, offset)
      [] method = "read_i32" -> read_i32(buffer, offset)
      [] method = "read_u32" -> read_u32(buffer, offset)
      [] method = "read_i64" -> read_i64(buffer, offset)
      [] method = "read_u64" -> read_u64(buffer, offset)

\* read_type(t): KeyError from the table lookup on a tag that is not in it.
read_type(buffer, offset, t) ==
    IF t \in DOMAIN TYPE_READER_MAP
    THEN reader_call(TYPE_READER_MAP[t], buffer, offset)
    ELSE Raise("KeyError", offset)

\* Mutant of empty: every byte must have been read.
empty_at_end(buffer, offset) == offset >= Len(buffer)

\* Mutant of empty: the comparison is strict and without the + 1.
empty_strict(buffer, offset) == offset > Len(buffer)

\* The empty property.
empty(buffer, offset) == offset + 1 >= Len(buffer)

\* The values of the PacketID enumeration (app/packets/constants/packet_ids.py).
PacketIDValues == {3, 5}

\* PacketID(value): ValueError unless value is a member's value.
PacketID(value) ==
    IF Len(value.bits) <= 16 /\ BitsNat(value.bits) \in PacketIDValues
    THEN Ok(value) ELSE Err("ValueError")

\* Mutant of next: the payload the header announces is skipped too.
next_auto_skip(buffer, offset) ==
    IF empty(buffer, offset) THEN Raise("StopIteration", offset)
    ELSE LET id == read_u16(buffer, offset)
             len == read_u32(buffer, skip(id.off, 1))
         IN IF ~id.ok THEN id
            ELSE IF ~len.ok THEN len
            ELSE IF ~PacketID(id.val).ok THEN Raise(PacketID(id.val).err, len.off)
            ELSE Ret(<<PacketID(id.val).val, len.val>>, skip(len.off, BitsNat(len.val.bits)))

\* __next__(): StopIteration when empty, else the (PacketID, length) pair.
next(buffer, offset) ==
    IF empty(buffer, offset) THEN Raise("StopIteration", offset)
    ELSE LET id == read_u16(buffer, offset)
             len == read_u32(buffer, skip(id.off, 1))
         IN IF ~id.ok THEN id
            ELSE IF ~len.ok THEN len
            ELSE IF ~PacketID(id.val).ok THEN Raise(PacketID(id.val).err, len.off)
            ELSE Ret(<<PacketID(id.val).val, len.val>>, len.off)

\* ------------------------------------------------------------------------
\* LRUCache (app/cache/lru_cache.py): the dict _cache is the sequence of its
\* items [key, value] in iteration order; None is the value "None"
\* ------------------------------------------------------------------------

\* The items of a dict without the one of key, in order.
RECURSIVE Without(_, _)
Without(items, key) ==
    IF items = <<>> THEN <<>>
    ELSE IF Head(items).key = key THEN Without(Tail(items), key)
    ELSE <<Head(items)>> \o Without(Tail(items), key)

\* key in self._cache
Has(items, key) == \E i \in 1..Len(items) : items[i].key = key

\* self._cache.get(key): the value stored, or None.
Lookup(items, key) ==
    IF Has(items, key)
    THEN items[CHOOSE i \in 1..Len(items) : items[i].key = key].value
    ELSE "None"

\* __add_to_front(key, value): {key: value} | self._cache.  The union keeps
\* the left operand's key first and takes the value of the right operand for
\* a key both have.
add_to_front(items, key, value) ==
    <<[key |-> key, value |-> IF Has(items, key) THEN Lookup(items, key) ELSE value]>>
        \o Without(items, key)

\* remove(key): del self._cache[key], KeyError ignored.
remove(items, key) == Without(items, key)

\* Mutant of clear_to_capacity: one key more than the capacity is kept.
clear_to_capacity_keeps_one_more(items, cap) ==
    SubSeq(items, 1, IF cap + 1 < Len(items) THEN cap + 1 ELSE Len(items))

\* __clear_to_capacity(): the keys cache_keys[capacity:] are removed
\* (capacity >= 0).
clear_to_capacity(items, cap) ==
    SubSeq(items, 1, IF cap < Len(items) THEN cap ELSE Len(items))

\* Mutant of get: the value is returned and the dict left as it is.
get_no_move(items, key) == [res |-> Lookup(items, key), items |-> items]

\* get(key): the value returned and the dict left; a value that is not None
\* is moved to the front.
get(items, key) ==
    LET res == Lookup(items, key)
    IN [res |-> res,
        items |-> IF res # "None" THEN add_to_front(remove(items, key), key, res)
                  ELSE items]

\* insert(key, value): the dict left.
insert(items, cap, key, value) ==
    LET added == add_to_front(items, key, value)
    IN IF Len(added) > cap THEN clear_to_capacity(added, cap) ELSE added

\* ------------------------------------------------------------------------
\* EventManager (api/event/manager.py): _events is a function from the
\* events that have a list to that list.  A list is a mutable object that
\* register() appends to in place, so whoever holds the list of an event sees
\* the appends made after it got hold of it: a holder is modelled as holding
\* the name of the event and reading the list anew each time.
\* ------------------------------------------------------------------------

\* Mutant of register: the callback is put at the front of the list.
register_at_front(evs, event, callback) ==
    IF event \in DOMAIN evs
    THEN [evs EXCEPT ![event] = <<callback>> \o @]
    ELSE evs @@ (event :> <<callback>>)

\* register(event, callback): the list of the event, created when missing,
\* gets the callback appended.
register(evs, event, callback) ==
    IF event \in DOMAIN evs
    THEN [evs EXCEPT ![event] = Append(@, callback)]
    ELSE evs @@ (event :> <<callback>>)

\* emit(event, *args): None when the event has no list; else the task created
\* for the coroutine execute_all(event_list, args), which has not yet run: l
\* is the list object it was given, pos the number of elements its for loop
\* has taken, calls the calls of callbacks it has made.
emit(evs, event, args) ==
    IF event \notin DOMAIN evs THEN [task |-> FALSE]
    ELSE [task |-> TRUE,
          coro |-> [l |-> event, args |-> args, pos |-> 0, state |-> "pending",
                    calls |-> <<>>]]

\* The call func(*args), awaited (done = FALSE) and then completed.
Invocation(func, args) == [func |-> func, args |-> args, done |-> FALSE]

\* One run of the task of execute_all(l, args) by the event loop, from where
\* it was suspended to its next suspension.  The callback it awaited (if any)
\* has returned or raised: an exception is not caught, it ends the task.
\* Otherwise the for loop takes the next element of l as l is now and awaits
\* its call, or finds none and the task is done.  A callback that never
\* suspends lets the loop go on at once; that is the same sequence of calls
\* as the event loop running this task again before any other.
execute_all(coro, l, raised) ==
    LET n == Len(coro.calls)
        resumed == IF coro.state = "awaiting"
                   THEN [coro EXCEPT !.calls[n].done = TRUE]
                   ELSE coro
    IN IF coro.state = "awaiting" /\ raised
       THEN [coro EXCEPT !.state = "failed"]
       ELSE IF resumed.pos < Len(l)
       THEN [resumed EXCEPT !.calls = Append(@, Invocation(l[resumed.pos + 1], coro.args)),
                            !.pos = @ + 1,
                            !.state = "awaiting"]
       ELSE [resumed EXCEPT !.state = "done"]

\* ------------------------------------------------------------------------
\* Bounds and inputs
\* ------------------------------------------------------------------------

\* Encode calls made on one writer.
MaxWrites == 2
\* Reader calls are made while the offset is at most this far past the end.
MaxOverrun == 2
\* Length of the arbitrary byte strings a reader is constructed over.
MaxRawLen == 2
\* Length of the lists write_list is given.
MaxListLen == 2
\* Capacity of the cache.
MaxCapacity == 2
\* Number of distinct keys the cache is used with.
MaxKeys == 3
\* register() calls made on the event manager.
MaxRegs == 3
\* emit() calls made on the event manager.
MaxEmits == 1
\* Packets put on the wire.
MaxPackets == 2

U8Values == {Nat0(0), Nat0(11), Nat0(255)}
I8Values == {Nat0(0), Neg0(128), Nat0(127), Neg0(2)}
U16Values == {Nat0(0), Nat0(258), Nat0(65535)}
I16Values == {Nat0(0), Neg0(32768), Nat0(32767), Neg0(2)}
U32Values == {Nat0(0), Nat0(16909060), PyInt(FALSE, Ones(32))}
I32Values == {Nat0(0), PyInt(TRUE, Zeros(31) \o <<1>>), PyInt(FALSE, Ones(31)), Neg0(2)}
U64Values == {Nat0(0), PyInt(FALSE, Zeros(40) \o <<1, 1>>), PyInt(FALSE, Ones(64))}
I64Values ==
    {Nat0(0), PyInt(TRUE, Zeros(63) \o <<1>>), PyInt(FALSE, Ones(63)), Neg0(2)}
\* 1.0 and -2.5
F32Values == {PyFloat(0, 127, 0), PyFloat(1, 128, 2097152)}
UlebValues ==
    {Nat0(0), Nat0(1), Nat0(11), Nat0(127), Nat0(128), Nat0(16384), PyInt(FALSE, Ones(32))}
\* "", "hi", "e-acute" (2 bytes in UTF-8), "euro sign, h" (3 + 1 bytes)
StrValues == {<<>>, <<104, 105>>, <<233>>, <<8364, 104>>}
RawValues == {<<11, 0>>}
AmountValues == {0, 1, 2}
SkipValues == {0, 1, 3}

\* Elements of the lists written: two in-range values per wire type tag.
ListElems(typ) ==
    CASE typ = "u8" -> {Nat0(0), Nat0(255)}
      [] typ = "i8" -> {Neg0(128), Nat0(127)}
      [] typ = "u16" -> {Nat0(258), Nat0(65535)}
      [] typ = "i16" -> {Neg0(32768), Nat0(32767)}
      [] typ = "u32" -> {Nat0(16909060), PyInt(FALSE, Ones(32))}
      [] typ = "i32" -> {PyInt(TRUE, Zeros(31) \o <<1>>), Nat0(7)}
      [] typ = "u64" -> {Nat0(0), PyInt(FALSE, Ones(64))}
      [] typ = "i64" -> {PyInt(TRUE, Zeros(63) \o <<1>>), Neg0(2)}
      [] typ = "float" -> F32Values
      [] typ = "str" -> {<<>>, <<104, 105>>}

\* Every list of at most n elements of ListElems(typ).
RECURSIVE ListValues(_, _)
ListValues(typ, n) ==
    IF n = 0 THEN {<<>>}
    ELSE ListValues(typ, n - 1)
         \cup {Append(l, e) : l \in {m \in ListValues(typ, n - 1) : Len(m) = n - 1},
                              e \in ListElems(typ)}

\* A list whose second element is out of the range of u8.
OutOfRangeLists == {<<Nat0(0), Nat0(256)>>}
\* Tags that neither dispatch table registers (the Python types bytes and int).
UnregisteredTags == {"bytes", "int"}
UnregisteredLists == {<<>>, <<Nat0(1)>>}
OsuListValues == {<<>>, <<Neg0(2), Nat0(7)>>}

CapacityValues == 0..MaxCapacity
CacheKeys == 1..MaxKeys
\* Values stored in the cache; None is one of them.
CacheValues == {"a", "b", "None"}

EventNames == {"login", "logout"}
\* Coroutine functions.
Callbacks == {"f", "g", "h"}
\* The *args of emit().
ArgValues == {<<1>>, <<2>>}

\* Every byte string over RawBytes of at most n bytes.
RawBytes == {0, 11, 255}
RECURSIVE RawStrings(_)
RawStrings(n) ==
    IF n = 0 THEN {<<>>}
    ELSE RawStrings(n - 1)
         \cup {Append(b, x) : b \in {c \in RawStrings(n - 1) : Len(c) = n - 1}, x \in RawBytes}

\* Received headers: a packet id, any padding byte, a length; and what is
\* left of one when the buffer is cut short.
HeaderInputs ==
    {<<id, 0, pad, len, 0, 0, 0>> : id \in {3, 4}, pad \in {0, 1, 255}, len \in {0, 1}}
\* Received variable-length integers behind the 0x0B marker: 128, 16383 with
\* a third group of zero, and one whose last byte announces a further group.
UlebInputs == {<<11, 128, 1>>, <<11, 255, 255, 0>>, <<11, 129>>}
\* Received strings (existence byte, marker, length 2 or 1, data): cut short
\* after one byte, complete, followed by a further byte, and not UTF-8.
StrInputs ==
    {<<11, 11, 2, 104>>, <<11, 11, 2, 104, 105>>, <<11, 11, 2, 104, 105, 106>>,
     <<11, 11, 1, 195>>}
\* Two received headers, the first announcing a payload of one byte that is
\* not there; and a header followed by a single byte.
StreamInputs ==
    {<<3, 0, 0, 1, 0, 0, 0, 5, 0, 9, 0, 0, 0, 0>>, <<3, 0, 0, 0, 0, 0, 0, 9>>}
ReaderInputs ==
    RawStrings(MaxRawLen)
    \cup {SubSeq(h, 1, k) : h \in HeaderInputs, k \in 0..HEADER_LEN}
    \cup UlebInputs \cup StrInputs \cup StreamInputs

\* ------------------------------------------------------------------------
\* State
\* ------------------------------------------------------------------------

VARIABLES
    w_state,    \* "none": no writer; "open": constructed; "finished": finish()
                \* returned; "failed": finish() raised
    w_pralloc,  \* the writer's pralloc_header argument
    w_buffer,   \* BinaryWriter._buffer
    w_log,      \* the calls made on the writer, [op, arg], in order
    w_err,      \* the exception the last writer call raised, or "none"
    w_ret,      \* what the last writer call returned: "self" (the writer it was
                \* called on), "buffer" (finish), or "none" (it raised, or no call)
    wire,       \* the finished packets handed to the transport, concatenated
    sent,       \* per packet on the wire: its id and payload length
    r_state,    \* "none": no reader; "live": constructed
    r_src,      \* what the reader was constructed over: "writer", "wire", "raw"
    r_buffer,   \* BinaryReader._buffer
    r_offset,   \* BinaryReader._offset
    r_last,     \* the last reader call: its name, the offset it started at, its outcome
    r_yield,    \* the header pairs __next__ and read_osu_header have returned so far
    capacity,   \* LRUCache.capacity
    cache,      \* LRUCache._cache: the dict as its (key, value) items in order
    c_last,     \* the last cache call: its name, arguments and return value
    c_recent,   \* the keys the caller has used, by their last insert or get
                \* that returned a value, most recent first
    events,     \* EventManager._events: event -> its list of callbacks
    tasks,      \* the tasks emit() created, in order of creation
    e_regs,     \* the register() calls made, [event, callback], in order
    e_emitted   \* the emit() calls made, in order: event, args, the task
                \* returned (0 for None) and the callbacks registered for
                \* the event when emit() was called

vars ==
    <<w_state, w_pralloc, w_buffer, w_log, w_err, w_ret, wire, sent,
      r_state, r_src, r_buffer, r_offset, r_last, r_yield,
      capacity, cache, c_last, c_recent,
      events, tasks, e_regs, e_emitted>>
w_vars == <<w_state, w_pralloc, w_buffer, w_log, w_err, w_ret>>
r_vars == <<r_state, r_src, r_buffer, r_offset, r_last, r_yield>>
c_vars == <<capacity, cache, c_last, c_recent>>
e_vars == <<events, tasks, e_regs, e_emitted>>

NoCall == [op |-> "none", arg |-> "none", from |-> 0, res |-> Ret(<<>>, 0)]
NoCacheCall == [op |-> "none", key |-> 0, value |-> "None", res |-> "None", size |-> 0]

\* No writer, no reader, nothing on the wire.
CodecInit ==
    /\ w_state = "none"
    /\ w_pralloc = FALSE
    /\ w_buffer = <<>>
    /\ w_log = <<>>
    /\ w_err = "none"
    /\ w_ret = "none"
    /\ wire = <<>>
    /\ sent = <<>>
    /\ r_state = "none"
    /\ r_src = "none"
    /\ r_buffer = <<>>
    /\ r_offset = 0
    /\ r_last = NoCall
    /\ r_yield = <<>>

\* No cache has been constructed.
CacheInit ==
    /\ capacity = 0
    /\ cache = <<>>
    /\ c_last = NoCacheCall
    /\ c_recent = <<>>

\* EventManager(): no event, no task.
EventInit ==
    /\ events = <<>>
    /\ tasks = <<>>
    /\ e_regs = <<>>
    /\ e_emitted = <<>>

Init == CodecInit /\ CacheInit /\ EventInit

\* ------------------------------------------------------------------------
\* Writer actions
\* ------------------------------------------------------------------------

\* BinaryWriter(pralloc_header)
NewWriter(pralloc_header) ==
    /\ w_state = "none"
    /\ r_state = "none"
    /\ Len(sent) < MaxPackets
    /\ w_state' = "open"
    /\ w_pralloc' = pralloc_header
    /\ w_buffer' = writer_init(pralloc_header)
    /\ w_log' = <<>>
    /\ w_err' = "none"
    /\ w_ret' = "none"
    /\ UNCHANGED <<wire, sent, r_vars, c_vars, e_vars>>

\* One encode call with outcome res: the call returns self with the buffer
\* grown, or it raises and leaves the buffer as it was when the exception was
\* raised.
Encode(op, arg, res) ==
    /\ w_state = "open"
    /\ r_state = "none"
    /\ Len(w_log) < MaxWrites
    /\ w_buffer' = IF res.ok \/ "val" \in DOMAIN res THEN res.val ELSE w_buffer
    /\ w_err' = IF res.ok THEN "none" ELSE res.err
    /\ w_ret' = IF res.ok THEN "self" ELSE "none"
    /\ w_log' = Append(w_log, [op |-> op, arg |-> arg])
    /\ UNCHANGED <<w_state, w_pralloc, wire, sent, r_vars, c_vars, e_vars>>

WriteI8(num) == Encode("write_i8", num, write_i8(w_buffer, num))
WriteU8(num) == Encode("write_u8", num, write_u8(w_buffer, num))
WriteI16(num) == Encode("write_i16", num, write_i16(w_buffer, num))
WriteU16(num) == Encode("write_u16", num, write_u16(w_buffer, num))
WriteI32(num) == Encode("write_i32", num, write_i32(w_buffer, num))
WriteU32(num) == Encode("write_u32", num, write_u32(w_buffer, num))
WriteI64(num) == Encode("write_i64", num, write_i64(w_buffer, num))
WriteU64(num) == Encode("write_u64", num, write_u64(w_buffer, num))
WriteF32(num) == Encode("write_f32", num, write_f32(w_buffer, num))
WriteUleb128(num) == Encode("write_uleb128", num, write_uleb128(w_buffer, num))
WriteStr(string) == Encode("write_str", string, write_str(w_buffer, string))
WriteRaw(contents) == Encode("write_raw", contents, write_raw(w_buffer, contents))
WriteList(l, typ) ==
    Encode("write_list", [l |-> l, typ |-> typ], write_list(w_buffer, l, typ))
WriteOsuList(l) ==
    Encode("write_osu_list", [l |-> l, typ |-> "i32"], write_osu_list(w_buffer, l))

\* finish(packet_id) with packet_id a PacketID member.
Finish(id) ==
    /\ w_state = "open"
    /\ r_state = "none"
    /\ LET res == finish(w_buffer, Nat0(id))
       IN /\ w_buffer' = IF res.ok THEN res.val ELSE w_buffer
          /\ w_err' = IF res.ok THEN "none" ELSE res.err
          /\ w_state' = IF res.ok THEN "finished" ELSE "failed"
          /\ w_ret' = IF res.ok THEN "buffer" ELSE "none"
    /\ w_log' = Append(w_log, [op |-> "finish", arg |-> Nat0(id)])
    /\ UNCHANGED <<w_pralloc, wire, sent, r_vars, c_vars, e_vars>>

\* The caller hands the finished packet to the transport and drops the writer.
Transmit ==
    /\ w_state = "finished"
    /\ r_state = "none"
    /\ wire' = wire \o w_buffer
    /\ sent' = Append(sent, [id |-> w_log[Len(w_log)].arg,
                             length |-> Len(w_buffer) - HEADER_LEN])
    /\ w_state' = "none"
    /\ w_buffer' = <<>>
    /\ w_log' = <<>>
    /\ w_ret' = "none"
    /\ UNCHANGED <<w_pralloc, w_err, r_vars, c_vars, e_vars>>

\* ------------------------------------------------------------------------
\* Reader actions
\* ------------------------------------------------------------------------

\* BinaryReader(buffer)
Construct(src, buffer) ==
    /\ r_state = "none"
    /\ r_state' = "live"
    /\ r_src' = src
    /\ r_buffer' = buffer
    /\ r_offset' = 0
    /\ r_last' = NoCall
    /\ r_yield' = <<>>
    /\ UNCHANGED <<w_vars, wire, sent, c_vars, e_vars>>

\* Over the bytes of a writer, once writing is over.
NewReaderOverWriter == w_state # "none" /\ Construct("writer", w_buffer)
\* Over the bytes received from the transport.
NewReaderOverWire == w_state = "none" /\ Construct("wire", wire)
\* Over arbitrary received bytes.
NewReaderRaw(buffer) == w_state = "none" /\ sent = <<>> /\ Construct("raw", buffer)

\* One reader call, made with argument arg, with outcome res.
CallArg(op, arg, res) ==
    /\ r_state = "live"
    /\ r_offset <= Len(r_buffer) + MaxOverrun
    /\ r_offset' = res.off
    /\ r_last' = [op |-> op, arg |-> arg, from |-> r_offset, res |-> res]
    /\ r_yield' = IF op \in {"next", "read_osu_header"} /\ res.ok
                 THEN Append(r_yield, res.val) ELSE r_yield
    /\ UNCHANGED <<r_state, r_src, r_buffer, w_vars, wire, sent, c_vars, e_vars>>

\* A reader call without argument.
Call(op, res) == CallArg(op, "none", res)

ReadU8 == Call("read_u8", read_u8(r_buffer, r_offset))
ReadI8 == Call("read_i8", read_i8(r_buffer, r_offset))
ReadU16 == Call("read_u16", read_u16(r_buffer, r_offset))
ReadI16 == Call("read_i16", read_i16(r_buffer, r_offset))
ReadU32 == Call("read_u32", read_u32(r_buffer, r_offset))
ReadI32 == Call("read_i32", read_i32(r_buffer, r_offset))
ReadU64 == Call("read_u64", read_u64(r_buffer, r_offset))
ReadI64 == Call("read_i64", read_i64(r_buffer, r_offset))
ReadF32 == Call("read_f32", read_f32(r_buffer, r_offset))
ReadBytes(amount) == Call("read_bytes", read_bytes(r_buffer, r_offset, amount))
ReadUleb128 == Call("read_uleb128", read_uleb128(r_buffer, r_offset))
ReadStr == Call("read_str", read_str(r_buffer, r_offset))
ReadType(t) == CallArg("read_type", t, read_type(r_buffer, r_offset, t))
ReadOsuHeader == Call("read_osu_header", read_osu_header(r_buffer, r_offset))
Skip(x) == Call("skip", Ret(skip(r_offset, x), skip(r_offset, x)))
\* next(reader)
IterNext == Call("next", next(r_buffer, r_offset))

\* A caller that walks the packets of its buffer: at each packet boundary it
\* requests the next pair (the loop "for packet_id, length in reader") or,
\* when the buffer is not empty, reads the header with read_osu_header(); it
\* then skips the payload.  The walk is over once a call raised.
Boundary == r_last.op \in {"none", "skip"}
Pending == r_last.op \in {"next", "read_osu_header"} /\ r_last.res.ok
LoopNext == Boundary /\ IterNext
LoopHeader == Boundary /\ ~empty(r_buffer, r_offset) /\ ReadOsuHeader
LoopSkip == Pending /\ Skip(BitsNat(r_last.res.val[2].bits))

\* ------------------------------------------------------------------------
\* Cache actions
\* ------------------------------------------------------------------------

\* A cache call: its name, arguments, return value, and len(self) before it.
CacheCall(op, key, value, res) ==
    [op |-> op, key |-> key, value |-> value, res |-> res, size |-> Len(cache)]

\* The caller's record of use after a use of key.
Used(recent, key) == <<key>> \o SelectSeq(recent, LAMBDA k : k # key)

\* LRUCache(capacity)
NewCache(c) ==
    /\ c_last.op = "none"
    /\ capacity' = c
    /\ cache' = <<>>
    /\ c_last' = CacheCall("LRUCache", 0, "None", "None")
    /\ c_recent' = <<>>
    /\ UNCHANGED <<w_vars, wire, sent, r_vars, e_vars>>

\* cache.insert(key, value)
Insert(key, value) ==
    /\ c_last.op # "none"
    /\ cache' = insert(cache, capacity, key, value)
    /\ c_last' = CacheCall("insert", key, value, "None")
    /\ c_recent' = Used(c_recent, key)
    /\ UNCHANGED <<capacity, w_vars, wire, sent, r_vars, e_vars>>

\* cache.get(key)
Get(key) ==
    /\ c_last.op # "none"
    /\ cache' = get(cache, key).items
    /\ c_last' = CacheCall("get", key, "None", get(cache, key).res)
    /\ c_recent' = IF get(cache, key).res # "None" THEN Used(c_recent, key) ELSE c_recent
    /\ UNCHANGED <<capacity, w_vars, wire, sent, r_vars, e_vars>>

\* cache.remove(key)
Remove(key) ==
    /\ c_last.op # "none"
    /\ cache' = remove(cache, key)
    /\ c_last' = CacheCall("remove", key, "None", "None")
    /\ UNCHANGED c_recent
    /\ UNCHANGED <<capacity, w_vars, wire, sent, r_vars, e_vars>>

\* ------------------------------------------------------------------------
\* Event manager actions
\* ------------------------------------------------------------------------

\* The callbacks registered for event so far, in the order of the calls.
Registered(event) ==
    LET regs == SelectSeq(e_regs, LAMBDA r : r.event = event)
    IN [i \in 1..Len(regs) |-> regs[i].callback]

\* manager.register(event, callback), also through the decorator on(event).
Register(event, callback) ==
    /\ Len(e_regs) < MaxRegs
    /\ events' = register(events, event, callback)
    /\ e_regs' = Append(e_regs, [event |-> event, callback |-> callback])
    /\ UNCHANGED <<tasks, e_emitted, w_vars, wire, sent, r_vars, c_vars>>

\* await manager.emit(event, *args)
Emit(event, args) ==
    /\ Len(e_emitted) < MaxEmits
    /\ LET res == emit(events, event, args)
       IN /\ tasks' = IF res.task THEN Append(tasks, res.coro) ELSE tasks
          /\ e_emitted' = Append(e_emitted,
                                 [event |-> event, args |-> args,
                                  task |-> IF res.task THEN Len(tasks) + 1 ELSE 0,
                                  registered |-> Registered(event)])
    /\ UNCHANGED <<events, e_regs, w_vars, wire, sent, r_vars, c_vars>>

\* The event loop runs task t up to its next suspension; the callback the
\* task was awaiting has returned, or has raised.
RunTask(t, raised) ==
    /\ tasks[t].state \in {"pending", "awaiting"}
    /\ raised => tasks[t].state = "awaiting"
    /\ tasks' = [tasks EXCEPT ![t] = execute_all(tasks[t], events[tasks[t].l], raised)]
    /\ UNCHANGED <<events, e_regs, e_emitted, w_vars, wire, sent, r_vars, c_vars>>

\* ------------------------------------------------------------------------
\* Specifications
\* ------------------------------------------------------------------------

\* The codec: a writer, one encode call on it, then a reader over its bytes
\* or over received bytes, and any reader calls.
Next ==
    \/ \E p \in BOOLEAN : NewWriter(p)
    \/ /\ w_log = <<>>
       /\ \/ \E num \in I8Values : WriteI8(num)
          \/ \E num \in U8Values : WriteU8(num)
          \/ \E num \in I16Values : WriteI16(num)
          \/ \E num \in U16Values : WriteU16(num)
          \/ \E num \in I32Values : WriteI32(num)
          \/ \E num \in U32Values : WriteU32(num)
          \/ \E num \in I64Values : WriteI64(num)
          \/ \E num \in U64Values : WriteU64(num)
          \/ \E num \in F32Values : WriteF32(num)
          \/ \E num \in UlebValues : WriteUleb128(num)
          \/ \E string \in StrValues : WriteStr(string)
          \/ \E contents \in RawValues : WriteRaw(contents)
    \/ \E id \in PacketIDValues : Finish(id)
    \/ NewReaderOverWriter
    \/ \E buffer \in ReaderInputs : NewReaderRaw(buffer)
    \/ ReadU8 \/ ReadI8 \/ ReadU16 \/ ReadI16 \/ ReadU32 \/ ReadI32
    \/ ReadU64 \/ ReadI64 \/ ReadF32
    \/ \E amount \in AmountValues : ReadBytes(amount)
    \/ ReadUleb128 \/ ReadStr \/ ReadOsuHeader
    \/ \E t \in SERIALISABLE_TYPES \cup UnregisteredTags : ReadType(t)
    \/ \E x \in SkipValues : Skip(x)
    \/ IterNext

Spec == Init /\ [][Next]_vars

\* The packet stream: packets are built with header reservation from up to
\* MaxWrites encode calls, finished and put on the wire; a reader over the
\* wire walks the packets.
StreamNext ==
    \/ NewWriter(TRUE)
    \/ \E num \in {Nat0(11)} : WriteU8(num)
    \/ \E string \in {<<104, 105>>} : WriteStr(string)
    \/ \E id \in PacketIDValues : Finish(id)
    \/ Transmit
    \/ NewReaderOverWire
    \/ LoopNext
    \/ LoopHeader
    \/ LoopSkip

SpecStream == Init /\ [][StreamNext]_vars

\* The writer alone: up to MaxWrites encode calls of every kind on one writer,
\* with or without header reservation, then finish.  The first call may be a
\* write_list of any list of ListValues; the calls after it draw from one
\* value per encoder.
WriterNext ==
    \/ \E p \in BOOLEAN : NewWriter(p)
    \/ /\ w_log = <<>>
       /\ \E typ \in SERIALISABLE_TYPES : \E l \in ListValues(typ, MaxListLen) : WriteList(l, typ)
    \/ \E num \in {Neg0(2)} : WriteI8(num)
    \/ \E num \in {Nat0(255)} : WriteU8(num)
    \/ \E num \in {Neg0(32768)} : WriteI16(num)
    \/ \E num \in {Nat0(258)} : WriteU16(num)
    \/ \E num \in {Neg0(2)} : WriteI32(num)
    \/ \E num \in {Nat0(16909060)} : WriteU32(num)
    \/ \E num \in {Neg0(2)} : WriteI64(num)
    \/ \E num \in {PyInt(FALSE, Ones(64))} : WriteU64(num)
    \/ \E num \in {PyFloat(1, 128, 2097152)} : WriteF32(num)
    \/ \E num \in {Nat0(128)} : WriteUleb128(num)
    \/ \E string \in {<<8364, 104>>} : WriteStr(string)
    \/ \E contents \in RawValues : WriteRaw(contents)
    \/ \E l \in OutOfRangeLists : WriteList(l, "u8")
    \/ \E typ \in UnregisteredTags : \E l \in UnregisteredLists : WriteList(l, typ)
    \/ \E l \in OsuListValues : WriteOsuList(l)
    \/ \E id \in PacketIDValues : Finish(id)

SpecWriter == Init /\ [][WriterNext]_vars

\* The cache: one LRUCache of any capacity and any calls on it.
CacheNext ==
    \/ \E c \in CapacityValues : NewCache(c)
    \/ \E key \in CacheKeys : \E value \in CacheValues : Insert(key, value)
    \/ \E key \in CacheKeys : Get(key)
    \/ \E key \in CacheKeys : Remove(key)

SpecCache == Init /\ [][CacheNext]_vars

\* The event manager: registrations, emissions and the event loop running
\* the tasks, in any order.
EventNext ==
    \/ \E event \in EventNames : \E callback \in Callbacks : Register(event, callback)
    \/ \E event \in EventNames : \E args \in ArgValues : Emit(event, args)
    \/ \E t \in 1..Len(tasks) : \E raised \in BOOLEAN : RunTask(t, raised)

SpecEvent == Init /\ [][EventNext]_vars

\* ------------------------------------------------------------------------
\* Properties
\* ------------------------------------------------------------------------

\* The bytes the encode calls appended to the writer's buffer.
Appended == SubSeq(w_buffer, (IF w_pralloc THEN HEADER_LEN ELSE 0) + 1, Len(w_buffer))

\* A reader over exactly the bytes that the single call op of a writer built
\* without header reservation appended has made call as its first call.
RoundTrip(op, call) ==
    /\ r_state = "live"
    /\ r_src = "writer"
    /\ ~w_pralloc
    /\ w_state = "open"
    /\ Len(w_log) = 1
    /\ w_log[1].op = op
    /\ r_last.op = call
    /\ r_last.from = 0

\* C1: a reader over exactly the bytes write_str(s) appended returns s from
\* read_str() and leaves the offset at the end of those bytes.
C1_StrRoundTrip ==
    RoundTrip("write_str", "read_str") =>
        /\ r_last.res.ok
        /\ r_last.res.val = w_log[1].arg
        /\ r_offset = Len(r_buffer)

\* 0, 1, 127, 128, 16384 and 2^32 - 1.
C2_Values ==
    {Nat0(0), Nat0(1), Nat0(127), Nat0(128), Nat0(16384), PyInt(FALSE, Ones(32))}

\* C2: for n in {0, 1, 127, 128, 16384, 2^32-1}, read_uleb128() over exactly
\* the bytes write_uleb128(n) appended returns n.
C2_Uleb128RoundTrip ==
    (RoundTrip("write_uleb128", "read_uleb128") /\ w_log[1].arg \in C2_Values) =>
        /\ r_last.res.ok
        /\ r_last.res.val = w_log[1].arg

\* C3: whatever reader calls were made, failed ones included, the offset
\* satisfies 0 <= offset <= len(buffer).
C3_CursorInBuffer ==
    r_state = "live" => (0 <= r_offset /\ r_offset <= Len(r_buffer))

\* The fixed width in bytes of what a primitive decoder reads.
Width(op) ==
    CASE op \in {"read_u8", "read_i8"} -> 1
      [] op \in {"read_u16", "read_i16"} -> 2
      [] op \in {"read_u32", "read_i32", "read_f32"} -> 4
      [] op \in {"read_u64", "read_i64"} -> 8

Primitives ==
    {"read_u8", "read_i8", "read_u16", "read_i16", "read_u32", "read_i32",
     "read_u64", "read_i64", "read_f32"}

\* Unread bytes at offset off (none once the offset is past the end).
Unread(off) == IF off >= Len(r_buffer) THEN 0 ELSE Len(r_buffer) - off

\* C4: a primitive decoder called when fewer unread bytes remain than its
\* width raises and returns no value.
C4_OutOfData ==
    (r_last.op \in Primitives /\ Unread(r_last.from) < Width(r_last.op)) =>
        ~r_last.res.ok

\* A read_u32() made with two unread bytes, and a read_u8() made with none.
C4_Witness ==
    \/ r_last.op = "read_u32" /\ Unread(r_last.from) = 2 /\ ~r_last.res.ok
    \/ r_last.op = "read_u8" /\ r_buffer = <<>> /\ ~r_last.res.ok

\* C7: write_str("") appends the byte 0x00; write_str(s) for non-empty s
\* appends 0x0B, the ULEB128 encoding of the number of UTF-8 bytes of s, and
\* the UTF-8 bytes of s.
C7_StrLayout ==
    (w_state = "open" /\ Len(w_log) = 1 /\ w_log[1].op = "write_str") =>
        LET s == w_log[1].arg
            utf8 == utf8_bytes(s)
        IN Appended = IF s = <<>> THEN <<0>>
                      ELSE <<11>> \o write_uleb128(<<>>, Nat0(Len(utf8))).val \o utf8

\* Ripple-carry sum of two digit sequences of equal length, carry dropped.
RECURSIVE AddMod(_, _, _)
AddMod(a, b, carry) ==
    IF a = <<>> THEN <<>>
    ELSE <<(Head(a) + Head(b) + carry) % 2>>
         \o AddMod(Tail(a), Tail(b), (Head(a) + Head(b) + carry) \div 2)

\* bytes is the little-endian encoding of v in exactly w bits: the digits of
\* the bytes, lowest byte first, are those of v when v >= 0, and those of
\* 2^w - |v|, with the sign bit set, when v < 0.
LittleEndian(bytes, v, w) ==
    /\ Len(bytes) * 8 = w
    /\ LET b == BytesBits(bytes)
       IN IF ~v.neg THEN b = Pad(v.bits, w)
          ELSE b[w] = 1 /\ AddMod(b, Pad(v.bits, w), 0) = Zeros(w)

IntegerCodecs ==
    {<<"write_u8", "read_u8", 8>>, <<"write_i8", "read_i8", 8>>,
     <<"write_u16", "read_u16", 16>>, <<"write_i16", "read_i16", 16>>,
     <<"write_u32", "read_u32", 32>>, <<"write_i32", "read_i32", 32>>,
     <<"write_u64", "read_u64", 64>>, <<"write_i64", "read_i64", 64>>}

\* C8: for each integer wire type and in-range value v, read_X over the bytes
\* write_X(v) appended returns v, those bytes are the little-endian encoding
\* of v in the width of the type, and the offset ends at their end.
C8_PrimitiveRoundTrip ==
    \A c \in IntegerCodecs :
        RoundTrip(c[1], c[2]) =>
            /\ r_last.res.ok
            /\ r_last.res.val = w_log[1].arg
            /\ LittleEndian(r_buffer, w_log[1].arg, c[3])
            /\ r_offset = Len(r_buffer)

\* The minimum of i64 and the maximum of u32 have made the round trip.
C8_Witness ==
    \/ /\ RoundTrip("write_i64", "read_i64")
       /\ w_log[1].arg = PyInt(TRUE, Zeros(63) \o <<1>>)
       /\ r_last.res.ok
    \/ /\ RoundTrip("write_u32", "read_u32")
       /\ w_log[1].arg = PyInt(FALSE, Ones(32))
       /\ r_last.res.ok

\* The unsigned little-endian number in bytes [from, from + n) of the buffer.
Field(from, n) == PyInt(FALSE, Strip(BytesBits(SubSeq(r_buffer, from + 1, from + n))))

\* C9: read_osu_header() raises AssertionError whenever the third header byte
\* is non-zero and returns (packet_id, payload_length) only when it is zero;
\* __next__() on 7 header bytes with a packet id of the enumeration yields the
\* pair whatever the padding byte is.
C9_StrictAndLenient ==
    LET from == r_last.from
    IN /\ (r_last.op = "read_osu_header" /\ from + 3 <= Len(r_buffer)
           /\ r_buffer[from + 3] # 0) =>
              (~r_last.res.ok /\ r_last.res.err = "AssertionError")
       /\ (r_last.op = "read_osu_header" /\ r_last.res.ok) =>
              /\ r_buffer[from + 3] = 0
              /\ r_last.res.val = <<Field(from, 2), Field(from + 3, 4)>>
       /\ (r_last.op = "read_osu_header" /\ from + 7 <= Len(r_buffer)
           /\ r_buffer[from + 3] = 0) =>
              r_last.res.ok
       /\ (r_last.op = "next" /\ from + 7 <= Len(r_buffer)
           /\ PacketID(Field(from, 2)).ok) =>
              /\ r_last.res.ok
              /\ r_last.res.val = <<Field(from, 2), Field(from + 3, 4)>>

\* __next__() has yielded the pair of a header whose padding byte is 255.
C9_Witness ==
    /\ r_last.op = "next"
    /\ r_last.res.ok
    /\ r_buffer[r_last.from + 3] = 255

\* C10: write_uleb128(n) appends max(1, ceil(bits_needed(n) / 7)) bytes; byte
\* i carries bits 7i..7i+6 of n in its low 7 bits; every byte but the last
\* has its high bit set and the last has it clear; n = 0 appends 0x00.
C10_Uleb128Layout ==
    (w_state = "open" /\ Len(w_log) = 1 /\ w_log[1].op = "write_uleb128") =>
        LET n == w_log[1].arg.bits
            groups == (Len(n) + 6) \div 7
            count == IF groups < 1 THEN 1 ELSE groups
            digits == Pad(n, 7 * count)
        IN /\ Len(Appended) = count
           /\ \A i \in 0..(count - 1) :
                  /\ Appended[i + 1] % 128 = BitsNat(SubSeq(digits, 7 * i + 1, 7 * i + 7))
                  /\ (Appended[i + 1] >= 128) = (i < count - 1)
           /\ (n = <<>> => Appended = <<0>>)

\* write_uleb128(2^32 - 1) has appended its five bytes after a reserved header.
C10_Witness ==
    /\ w_state = "open"
    /\ w_pralloc
    /\ w_log = <<[op |-> "write_uleb128", arg |-> PyInt(FALSE, Ones(32))]>>
    /\ Len(w_buffer) = 12

\* The header pair of the i-th packet on the wire.
Header(i) == <<sent[i].id, Nat0(sent[i].length)>>

\* A finish(id) call on a writer with header reservation and payload P: the
\* buffer keeps its length 7 + len(P), its bytes from index 7 on are P, the
\* padding byte is 0, and read_osu_header() and __next__() both decode its
\* first 7 bytes as (id, len(P)).
C5_FinishEffect ==
    (w_state = "open" /\ w_state' = "finished" /\ w_pralloc) =>
        LET P == Appended
            id == w_log'[Len(w_log')].arg
            pair == <<id, Nat0(Len(P))>>
        IN /\ Len(w_buffer') = HEADER_LEN + Len(P)
           /\ SubSeq(w_buffer', HEADER_LEN + 1, Len(w_buffer')) = P
           /\ w_buffer'[3] = 0
           /\ read_osu_header(w_buffer', 0) = Ret(pair, HEADER_LEN)
           /\ next(w_buffer', 0) = Ret(pair, HEADER_LEN)

\* The first header call of a reader over the wire returns the id and the
\* payload length of the first packet.
C5_Decoded ==
    (r_state = "live" /\ r_last.op \in {"next", "read_osu_header"} /\ r_last.from = 0
     /\ sent # <<>>) =>
        /\ r_last.res.ok
        /\ r_last.res.val = Header(1)
        /\ r_offset = HEADER_LEN
        /\ SubSeq(r_buffer, HEADER_LEN + 1, HEADER_LEN + sent[1].length)
               = SubSeq(wire, HEADER_LEN + 1, HEADER_LEN + sent[1].length)

\* C5: finish(id) on a writer with header reservation and payload bytes P
\* returns a buffer of length 7 + len(P) whose first 7 bytes the header
\* readers decode as (id, len(P)) with padding byte 0, and whose bytes from
\* index 7 on equal P.
C5_HeaderRoundTrip == [][C5_FinishEffect]_vars /\ []C5_Decoded

\* read_osu_header() has decoded the header of a packet whose payload came
\* from two encode calls (write_str("hi") and write_u8(11): 5 bytes).
C5_Witness ==
    /\ r_state = "live"
    /\ r_last.op = "read_osu_header"
    /\ r_last.from = 0
    /\ r_last.res.ok
    /\ sent # <<>>
    /\ sent[1].length = 5

\* C6: a caller that walks a reader over n well-formed packets and skips
\* exactly payload_length bytes after each pair gets the n header pairs in
\* order, never a further pair, never an error, and then StopIteration; until
\* then the offset stays within the buffer and the walk can go on (LoopNext or
\* LoopSkip is enabled).
C6_Iteration ==
    r_state = "live" =>
        /\ Len(r_yield) <= Len(sent)
        /\ \A i \in 1..Len(r_yield) : r_yield[i] = Header(i)
        /\ ~r_last.res.ok =>
               (r_last.res.err = "StopIteration" /\ r_yield = [i \in 1..Len(sent) |-> Header(i)])
        /\ r_last.res.ok => ((Boundary \/ Pending) /\ r_offset <= Len(r_buffer))

\* The walk over two packets, the first with an empty payload, has ended with
\* StopIteration; or the walk over no packet has.
C6_Witness ==
    /\ r_state = "live"
    /\ ~r_last.res.ok
    /\ r_last.res.err = "StopIteration"
    /\ Len(r_yield) = 2
    /\ sent[1].length = 0
    /\ sent[2].length = 4

\* ------------------------------------------------------------------------
\* Lists, dispatch and the writer's buffer
\* ------------------------------------------------------------------------

\* The encode call a step makes, when it makes one.
Encoding(ops) ==
    /\ w_state = "open"
    /\ Len(w_log') = Len(w_log) + 1
    /\ w_log'[Len(w_log')].op \in ops

\* elem is in the range of wire type typ.
InRange(typ, elem) ==
    CASE typ \in {"str", "float"} -> TRUE
      [] typ = "u8" -> (~elem.neg /\ Len(elem.bits) <= 8)
      [] typ = "u16" -> (~elem.neg /\ Len(elem.bits) <= 16)
      [] typ = "u32" -> (~elem.neg /\ Len(elem.bits) <= 32)
      [] typ = "u64" -> (~elem.neg /\ Len(elem.bits) <= 64)
      [] typ = "i8" -> (Len(elem.bits) <= 7 \/ elem = PyInt(TRUE, Zeros(7) \o <<1>>))
      [] typ = "i16" -> (Len(elem.bits) <= 15 \/ elem = PyInt(TRUE, Zeros(15) \o <<1>>))
      [] typ = "i32" -> (Len(elem.bits) <= 31 \/ elem = PyInt(TRUE, Zeros(31) \o <<1>>))
      [] typ = "i64" -> (Len(elem.bits) <= 63 \/ elem = PyInt(TRUE, Zeros(63) \o <<1>>))

\* The bytes the tag's own encoder appends for one element.
OwnEncoding(typ, elem) ==
    CASE typ = "u8" -> write_u8(<<>>, elem).val
      [] typ = "i8" -> write_i8(<<>>, elem).val
      [] typ = "u16" -> write_u16(<<>>, elem).val
      [] typ = "i16" -> write_i16(<<>>, elem).val
      [] typ = "u32" -> write_u32(<<>>, elem).val
      [] typ = "i32" -> write_i32(<<>>, elem).val
      [] typ = "u64" -> write_u64(<<>>, elem).val
      [] typ = "i64" -> write_i64(<<>>, elem).val
      [] typ = "float" -> write_f32(<<>>, elem).val
      [] typ = "str" -> write_str(<<>>, elem).val

\* The encodings of the elements of l, one after the other.
RECURSIVE ElementBytes(_, _)
ElementBytes(typ, l) ==
    IF l = <<>> THEN <<>> ELSE OwnEncoding(typ, Head(l)) \o ElementBytes(typ, Tail(l))

\* A write_list(l, t) call with t one of the ten tags and the elements of l
\* in range returns, having appended the bytes of write_u16(len(l)) and then
\* the bytes of the tag's encoder for each element in list order.
C11_ListAppended ==
    Encoding({"write_list"}) =>
        LET a == w_log'[Len(w_log')].arg
        IN (a.typ \in SERIALISABLE_TYPES /\ \A i \in 1..Len(a.l) : InRange(a.typ, a.l[i])) =>
               /\ w_err' = "none"
               /\ w_buffer' = w_buffer \o write_u16(<<>>, Nat0(Len(a.l))).val
                                       \o ElementBytes(a.typ, a.l)

\* Both dispatch tables register the ten tags and no other.
C11_Tables ==
    /\ DOMAIN _READERS = SERIALISABLE_TYPES
    /\ DOMAIN TYPE_READER_MAP = DOMAIN _READERS
    /\ Cardinality(DOMAIN _READERS) = 10

\* C11: for each of the ten registered tags t and every list l of in-range
\* elements, write_list(l, t) appends exactly the bytes that write_u16(len(l))
\* followed by one call of the tag's own encoder per element, in list order,
\* would append; the decode table and the encode table register exactly the
\* same ten tags.
C11_WriteListLayout == [][C11_ListAppended]_vars /\ []C11_Tables

\* write_list(["hi", ""], str) has appended 02 00, 0B 02 68 69, 00 after the
\* reserved header.
C11_Witness ==
    /\ w_pralloc
    /\ w_log = <<[op |-> "write_list", arg |-> [l |-> <<<<104, 105>>, <<>>>>, typ |-> "str"]]>>
    /\ w_buffer = NULL_HEADER \o <<2, 0, 11, 2, 104, 105, 0>>
    /\ w_ret = "self"

\* C12: read_type(tag) and write_list(elements, tag) with a tag registered in
\* no dispatch table fail, and the failed call leaves the codec state
\* unchanged: the reader's offset is not advanced and no byte is appended to
\* the writer's buffer.
C12_DispatchMiss ==
    /\ [][(Encoding({"write_list"}) /\ w_log'[Len(w_log')].arg.typ \in UnregisteredTags) =>
              (w_err' # "none" /\ w_buffer' = w_buffer)]_vars
    /\ []((r_last.op = "read_type" /\ r_last.arg \in UnregisteredTags) =>
              (~r_last.res.ok /\ r_offset = r_last.from))

EncodeOps ==
    {"write_i8", "write_u8", "write_i16", "write_u16", "write_i32", "write_u32",
     "write_i64", "write_u64", "write_f32", "write_uleb128", "write_str",
     "write_list", "write_osu_list", "write_raw"}

\* C13: every encode operation leaves every byte that was in the buffer before
\* the call unchanged, never shortens the buffer, and (when it returns) returns
\* the writer it was called on.
C13_AppendOnly ==
    [][Encoding(EncodeOps) =>
          /\ Len(w_buffer') >= Len(w_buffer)
          /\ SubSeq(w_buffer', 1, Len(w_buffer)) = w_buffer
          /\ (w_err' = "none" => w_ret' = "self")]_vars

\* write_raw, as the second call on a writer, has returned the writer with
\* its two bytes after those of write_str; and a write_list whose second
\* element is out of range has raised with the count and the first element
\* appended.
C13_Witness ==
    \/ /\ Len(w_log) = 2
       /\ w_log[1].op = "write_str"
       /\ w_log[2].op = "write_raw"
       /\ w_ret = "self"
       /\ Len(w_buffer) > 2
    \/ /\ Len(w_log) = 2
       /\ w_log[2].op = "write_list"
       /\ w_err = "ValueError"

\* C14: on a writer constructed with pralloc_header=False holding any number
\* of appended bytes (including fewer than 7), finish(packet_id) completes
\* without error, overwrites bytes [0, 7) with the header (u16 packet_id, zero
\* padding byte, u32 equal to len(buffer) - 7) and returns a buffer of the
\* same length as before the call.
C14_FinishNoReservation ==
    [][(Encoding({"finish"}) /\ ~w_pralloc) =>
          /\ w_state' = "finished"
          /\ w_ret' = "buffer"
          /\ Len(w_buffer') = Len(w_buffer)
          /\ Len(w_buffer') >= HEADER_LEN
          /\ SubSeq(w_buffer', 1, 2) = write_u16(<<>>, w_log'[Len(w_log')].arg).val
          /\ w_buffer'[3] = 0
          /\ unpack_unsigned(SubSeq(w_buffer', 4, 7), 32)
                 = Ok(PyDiff(Len(w_buffer'), HEADER_LEN))]_vars

\* ------------------------------------------------------------------------
\* Decoding and the cursor
\* ------------------------------------------------------------------------

\* The byte at offset off of the reader's buffer.
ByteAt(off) == r_buffer[off + 1]

\* The offsets after off at which a byte with a clear high bit lies.
Terminators(off) == {j \in (off + 1)..(Len(r_buffer) - 1) : ByteAt(j) < 128}

\* The least element of a non-empty set of numbers.
Least(S) == CHOOSE j \in S : \A k \in S : j <= k

TagWidth(typ) ==
    CASE typ \in {"u8", "i8"} -> 1
      [] typ \in {"u16", "i16"} -> 2
      [] typ \in {"u32", "i32", "float"} -> 4
      [] typ \in {"u64", "i64"} -> 8

\* The last call was read_str(), directly or through read_type(str).
StrCall == r_last.op = "read_str" \/ (r_last.op = "read_type" /\ r_last.arg = "str")

\* The operations that read: every reader call but skip().
ReadOps ==
    Primitives \cup {"read_bytes", "read_uleb128", "read_str", "read_osu_header",
                     "read_type", "next"}

\* The reads that decode a value of fixed or self-delimited size: all but
\* read_bytes(amount) and read_str() on a non-zero existence byte, which take
\* as many bytes as they are told to.
Delimited ==
    /\ r_last.op \in ReadOps \ {"read_bytes", "read_str"}
    /\ r_last.op = "read_type" => r_last.arg # "str"

\* After a successful read the offset is where the call started plus the
\* bytes it decoded, which lie in the buffer, and no read leaves the offset
\* lower than it found it.
C16_Advance ==
    LET from == r_last.from
        res == r_last.res
    IN /\ r_last.op # "none" => r_offset = res.off
       /\ (Delimited /\ res.ok) => res.off <= Len(r_buffer)
       /\ (r_last.op \in Primitives /\ res.ok) => res.off = from + Width(r_last.op)
       /\ (r_last.op = "read_type" /\ r_last.arg # "str" /\ res.ok) =>
              res.off = from + TagWidth(r_last.arg)
       /\ (StrCall /\ from < Len(r_buffer) /\ ByteAt(from) = 0) =>
              (res.ok /\ res.val = <<>> /\ res.off = from + 1)
       /\ (r_last.op = "next" /\ res.ok) =>
              (res.off = from + HEADER_LEN /\ res.val[2] = Field(from + 3, 4))
       /\ r_last.op \in ReadOps => res.off >= from

\* A header-iteration step made right after one that yielded a pair starts
\* at the byte after the previous header.
C16_NoAutoSkip ==
    (r_state = "live" /\ r_last.op = "next" /\ r_last.res.ok /\ r_last'.op = "next") =>
        /\ r_last'.from = r_last.from + HEADER_LEN
        /\ r_last'.res.ok =>
               r_last'.res.val = <<Field(r_last.from + HEADER_LEN, 2),
                                   Field(r_last.from + HEADER_LEN + 3, 4)>>

C18_NoSilentTruncation ==
    (StrCall /\ r_last.from < Len(r_buffer) /\ ByteAt(r_last.from) # 0) =>
        LET length == read_uleb128(r_buffer, r_last.from + 1)
            n == BitsNat(length.val.bits)
        IN length.ok =>
               /\ n > Unread(length.off) => ~r_last.res.ok
               /\ r_last.res.ok =>
                      /\ length.off + n <= Len(r_buffer)
                      /\ bytes_decode(SubSeq(r_buffer, length.off + 1, length.off + n))
                             = Ok(r_last.res.val)

\* ------------------------------------------------------------------------
\* The cache
\* ------------------------------------------------------------------------

\* C19: for an LRUCache with capacity c >= 0, after every insert, get or
\* remove in any sequence of such operations, the number of stored entries is
\* at most c.
C19_CapacityBound == c_last.op # "none" => Len(cache) <= capacity

\* An insert of a new key into a full cache of capacity 2 has left 2 entries,
\* the new one among them.
C19_Witness ==
    /\ capacity = 2
    /\ c_last.op = "insert"
    /\ c_last.size = 2
    /\ Len(cache) = 2
    /\ cache[1].key = c_last.key
    /\ cache[1].value = c_last.value

\* C20: for a cache with capacity >= 1, immediately after insert(k, v) the
\* call get(k) returns v, both when k was absent before the insert and when k
\* was already stored with a different value.
C20_InsertStores ==
    (c_last.op = "insert" /\ capacity >= 1) =>
        get(cache, c_last.key).res = c_last.value

\* The keys of the dict.
Keys(items) == {items[i].key : i \in 1..Len(items)}

\* The place of key in the record of use: 1 is the most recently used.
Rank(recent, key) == CHOOSE i \in 1..Len(recent) : recent[i] = key

\* After an insert (capacity >= 1) or a get that returned a value, the key is
\* the first entry of the dict; and the entries of the dict are always in the
\* order of their last use, so that the tail holds the least recently used.
C21_RecencyOrder ==
    /\ ((c_last.op = "insert" /\ capacity >= 1)
         \/ (c_last.op = "get" /\ c_last.res # "None")) =>
           (cache # <<>> /\ cache[1].key = c_last.key /\ c_recent[1] = c_last.key)
    /\ \A i \in 1..Len(cache) : \A j \in 1..Len(cache) :
           i < j => Rank(c_recent, cache[i].key) < Rank(c_recent, cache[j].key)

\* An insert keeps as many of the entries (the new one included) as the
\* capacity allows; every entry it removes was used less recently than every
\* entry it keeps; with capacity >= 1 the new entry is kept.
C21_Eviction ==
    (c_last'.op = "insert" /\ c_last' # c_last) =>
        LET k == c_last'.key
            before == Keys(cache) \cup {k}
            after == Keys(cache')
            removed == before \ after
        IN /\ after \subseteq before
           /\ Cardinality(after)
                  = (IF Cardinality(before) < capacity THEN Cardinality(before) ELSE capacity)
           /\ \A r \in removed : \A q \in after :
                  Rank(c_recent', q) < Rank(c_recent', r)
           /\ capacity >= 1 => k \in after

\* C21: an insert or a successful get of key k makes k the most recently
\* used entry; when an insert pushes the cache over capacity, the entries
\* removed are exactly the least recently used ones (by last insert or
\* successful get), and the entry just inserted is never the one evicted when
\* capacity >= 1.
C21_EvictionOrder == [][C21_Eviction]_vars /\ []C21_RecencyOrder

\* With capacity 2: keys 1 and 2 were inserted, 1 was read again, and the
\* insert of key 3 has evicted 2.
C21_Witness ==
    /\ capacity = 2
    /\ c_last.op = "insert"
    /\ c_last.key = 3
    /\ c_recent = <<3, 1, 2>>
    /\ Len(cache) = 2
    /\ cache[1].key = 3
    /\ cache[2].key = 1


\* The emit() call that created task t.
Emission(t) ==
    e_emitted[CHOOSE i \in 1..Len(e_emitted) : e_emitted[i].task = t]

\* The functions a task has called, in the order of the calls.
Invoked(coro) == [i \in 1..Len(coro.calls) |-> coro.calls[i].func]

\* s is an initial part of t.
IsPrefix(s, t) == Len(s) <= Len(t) /\ \A i \in 1..Len(s) : s[i] = t[i]

\* C22: emit() on an event with registered callbacks schedules one task, and
\* that task calls callbacks registered for that event only, in the order of
\* their registration and with the arguments of the emit(), one at a time:
\* every call but the last one made has completed; once the task is done it
\* has called every callback that was registered when emit() was called and
\* all its calls have completed.  emit() on an event without registration
\* returns None and schedules no task, so nothing is called for it.
C22_EmissionOrder ==
    /\ \A t \in 1..Len(tasks) :
          LET coro == tasks[t]
              em == Emission(t)
              n == Len(coro.calls)
          IN /\ coro.l = em.event /\ coro.args = em.args
             /\ IsPrefix(Invoked(coro), Registered(em.event))
             /\ \A i \in 1..n : coro.calls[i].args = em.args
             /\ \A i \in 1..(n - 1) : coro.calls[i].done
             /\ coro.state = "done" =>
                   /\ \A i \in 1..n : coro.calls[i].done
                   /\ IsPrefix(em.registered, Invoked(coro))
    /\ \A i \in 1..Len(e_emitted) :
          /\ (e_emitted[i].task = 0) <=> (e_emitted[i].registered = <<>>)
          /\ e_emitted[i].task \in 0..Len(tasks)
    /\ Len(tasks) = Cardinality({i \in 1..Len(e_emitted) : e_emitted[i].task # 0})

\* "login" got g and then f, "logout" got h only; the task of
\* emit("login", 2) has called g(2) and then f(2) and is done.
C22_Witness ==
    /\ Registered("login") = <<"g", "f">>
    /\ Registered("logout") = <<"h">>
    /\ Len(tasks) = 1
    /\ tasks[1].state = "done"
    /\ tasks[1].calls = <<[func |-> "g", args |-> <<2>>, done |-> TRUE],
                          [func |-> "f", args |-> <<2>>, done |-> TRUE]>>

\* C23: the callbacks a task calls are those registered for the event when
\* emit() was called, and no other: at any moment the calls made are an
\* initial part of that list, and all of it once the task is done.
C23_EmissionSnapshot ==
    \A t \in 1..Len(tasks) :
        LET coro == tasks[t]
            em == Emission(t)
        IN /\ IsPrefix(Invoked(coro), em.registered)
           /\ coro.state = "done" => Invoked(coro) = em.registered

====
